---------------------------- MODULE Spec2Model ----------------------------
(***************************************************************************)
(* A model of Dune::AffineGeometry (dune/geometry/affinegeometry.hh) and   *)
(* of Dune::checkGeometry (dune/geometry/genericgeometry/test/             *)
(* checkgeometry.hh).                                                      *)
(*                                                                         *)
(* Coordinates (ctype) are exact rationals <<numerator, denominator>>;     *)
(* the only rounding operation is the square root.  A FieldVector is a     *)
(* sequence of rationals, a FieldMatrix a sequence of rows.                *)
(***************************************************************************)
EXTENDS Integers, Sequences, FiniteSets, TLC

(***************************************************************************)
(* Bounds of the model.                                                    *)
(***************************************************************************)
\* the entries of a Jacobian with at most four entries range over 0..MaxCoord
MaxCoord == 2
\* the square root is rounded down to a multiple of 1/SqrtScale
SqrtScale == 100

(***************************************************************************)
(* ctype: exact rational arithmetic.                                       *)
(***************************************************************************)
RECURSIVE GCD(_, _)
GCD(a, b) == IF b = 0 THEN a ELSE GCD(b, a % b)

Abs(n) == IF n < 0 THEN -n ELSE n

\* the rational n/d in lowest terms with a positive denominator (d # 0)
Frac(n, d) ==
  LET g == GCD(Abs(n), Abs(d))
      s == IF d < 0 THEN -1 ELSE 1
  IN  <<s * (n \div g), s * (d \div g)>>

Q(n) == <<n, 1>>

RAdd(a, b) == Frac(a[1] * b[2] + b[1] * a[2], a[2] * b[2])
RSub(a, b) == Frac(a[1] * b[2] - b[1] * a[2], a[2] * b[2])
RMul(a, b) == Frac(a[1] * b[1], a[2] * b[2])
RDiv(a, b) == Frac(a[1] * b[2], a[2] * b[1])
RNeg(a) == <<-a[1], a[2]>>
RAbs(a) == <<Abs(a[1]), a[2]>>
RLt(a, b) == a[1] * b[2] < b[1] * a[2]

\* a > 1/t for a positive integer t, without forming a[1]*t
GtInv(a, t) == a[1] > 0 /\ (a[2] \div a[1]) < t
\* a < 1/t for a positive integer t
LtInv(a, t) == a[1] <= 0 \/ (a[2] \div a[1]) > t \/
               ((a[2] \div a[1]) = t /\ (a[2] % a[1]) # 0)

RECURSIVE ISqrtIn(_, _, _)
\* the largest r in lo..hi with r*r <= n (lo*lo <= n < (hi+1)*(hi+1))
ISqrtIn(n, lo, hi) ==
  IF lo = hi THEN lo
  ELSE LET mid == (lo + hi + 1) \div 2
       IN  IF mid * mid <= n THEN ISqrtIn(n, mid, hi) ELSE ISqrtIn(n, lo, mid - 1)

ISqrt(n) == ISqrtIn(n, 0, IF n < 46340 THEN n ELSE 46340)

\* std::sqrt of a non-negative rational, rounded down to a multiple of 1/SqrtScale
Sqrt(a) == Frac(ISqrt((a[1] * SqrtScale * SqrtScale) \div a[2]), SqrtScale)

(***************************************************************************)
(* FieldVector and FieldMatrix operations used by the two files.           *)
(***************************************************************************)
\* the sequence <<F(1), ..., F(n)>>; up to the largest dimension, 3, its
\* elements are computed once
Tab(n, F(_)) ==
  CASE n = 0 -> <<>>
    [] n = 1 -> <<F(1)>>
    [] n = 2 -> <<F(1), F(2)>>
    [] n = 3 -> <<F(1), F(2), F(3)>>
    [] OTHER -> [k \in 1..n |-> F(k)]

RECURSIVE RSum(_, _, _)
\* f[1] + ... + f[k], starting from acc
RSum(f, k, acc) == IF k = 0 THEN acc ELSE RSum(f, k - 1, RAdd(acc, f[k]))

Rows(M) == Len(M)

QVec(v) == Tab(Len(v), LAMBDA k : Q(v[k]))
QMat(M) == Tab(Len(M), LAMBDA i : QVec(M[i]))
ZeroVec(n) == Tab(n, LAMBDA k : Q(0))

VecAdd(u, v) == Tab(Len(u), LAMBDA k : RAdd(u[k], v[k]))
VecSub(u, v) == Tab(Len(u), LAMBDA k : RSub(u[k], v[k]))

\* y = A x
Dot(u, v) == RSum(Tab(Len(u), LAMBDA k : RMul(u[k], v[k])), Len(u), Q(0))
Col(A, j) == Tab(Rows(A), LAMBDA i : A[i][j])
mv(A, x) == Tab(Rows(A), LAMBDA i : Dot(A[i], x))
\* y = A^T x, A with n columns
mtv(A, x, n) == Tab(n, LAMBDA j : Dot(Col(A, j), x))
\* y += A^T x
umtv(A, x, y) == VecAdd(y, mtv(A, x, Len(y)))

\* the square of two_norm()
two_norm2(v) == Dot(v, v)

Transpose(A, n) == Tab(n, LAMBDA j : Col(A, j))
\* A (m x k) times B (k x n)
MatMul(A, B, n) ==
  Tab(Rows(A), LAMBDA i : Tab(n, LAMBDA j : Dot(A[i], Col(B, j))))
MatAdd(A, B) == Tab(Rows(A), LAMBDA i : VecAdd(A[i], B[i]))
MatScale(c, A) ==
  Tab(Rows(A), LAMBDA i : Tab(Len(A[i]), LAMBDA j : RMul(c, A[i][j])))
Identity(n) == Tab(n, LAMBDA i : Tab(n, LAMBDA j : IF i = j THEN Q(1) ELSE Q(0)))
ZeroMat(m, n) == Tab(m, LAMBDA i : ZeroVec(n))

\* A without its first row and its column j
Minor(A, j) ==
  Tab(Rows(A) - 1, LAMBDA i :
    Tab(Rows(A) - 1, LAMBDA k : A[i + 1][IF k < j THEN k ELSE k + 1]))

RECURSIVE determinant(_)
\* FieldMatrix::determinant, by expansion along the first row
determinant(A) ==
  IF Rows(A) = 0 THEN Q(1)
  ELSE RSum(Tab(Rows(A), LAMBDA j :
               RMul(IF j % 2 = 1 THEN A[1][j] ELSE RNeg(A[1][j]),
                    determinant(Minor(A, j)))), Rows(A), Q(0))


(***************************************************************************)
(* ReferenceElement / ReferenceElements (dune/geometry/                    *)
(* referenceelements.hh): the catalogue of reference elements.             *)
(***************************************************************************)
GeometryTypes(dim) ==
  CASE dim = 1 -> {"line"}
    [] dim = 2 -> {"triangle", "quadrilateral"}
    [] dim = 3 -> {"tetrahedron", "hexahedron", "prism", "pyramid"}

\* the vertices of a reference element, in the order of their indices 0, 1, ...
RefVertices(gt) ==
  CASE gt = "line" -> << <<0>>, <<1>> >>
    [] gt = "triangle" -> << <<0, 0>>, <<1, 0>>, <<0, 1>> >>
    [] gt = "quadrilateral" -> << <<0, 0>>, <<1, 0>>, <<0, 1>>, <<1, 1>> >>
    [] gt = "tetrahedron" ->
         << <<0, 0, 0>>, <<1, 0, 0>>, <<0, 1, 0>>, <<0, 0, 1>> >>
    [] gt = "hexahedron" ->
         Tab(8, LAMBDA i : <<(i - 1) % 2, ((i - 1) \div 2) % 2, ((i - 1) \div 4) % 2>>)
    [] gt = "prism" ->
         << <<0, 0, 0>>, <<1, 0, 0>>, <<0, 1, 0>>,
            <<0, 0, 1>>, <<1, 0, 1>>, <<0, 1, 1>> >>
    [] gt = "pyramid" ->
         << <<0, 0, 0>>, <<1, 0, 0>>, <<0, 1, 0>>, <<1, 1, 0>>, <<0, 0, 1>> >>

RefDim(gt) == Len(RefVertices(gt)[1])

\* ReferenceElement::size( codim ): the number of subentities of a codimension
size(gt, codim) == IF codim = RefDim(gt) THEN Len(RefVertices(gt)) ELSE 1

\* ReferenceElement::position( i, codim ) for 0 <= i < size( codim ):
\* vertex i for codim = dim, the barycentre of the vertices for codim = 0
position(gt, i, codim) ==
  IF codim = RefDim(gt) THEN QVec(RefVertices(gt)[i + 1])
  ELSE LET V == RefVertices(gt)
       IN  Tab(RefDim(gt), LAMBDA k :
              RDiv(RSum(Tab(Len(V), LAMBDA j : Q(V[j][k])), Len(V), Q(0)), Q(Len(V))))

\* ReferenceElement::volume()
RefVolume(gt) ==
  CASE gt = "line" -> Q(1)
    [] gt = "triangle" -> Frac(1, 2)
    [] gt = "quadrilateral" -> Q(1)
    [] gt = "tetrahedron" -> Frac(1, 6)
    [] gt = "hexahedron" -> Q(1)
    [] gt = "prism" -> Frac(1, 2)
    [] gt = "pyramid" -> Frac(1, 3)

(***************************************************************************)
(* MatrixHelper::rightInvA (dune/geometry/genericgeometry/                 *)
(* matrixhelper.hh): the Moore-Penrose pseudo-inverse of an m x n matrix A *)
(* and its pseudo-determinant sqrt(det(A A^T)), which is |det A| for       *)
(* m = n.  With B = A A^T and its characteristic polynomial                *)
(* t^m + c_1 t^(m-1) + ... + c_m, the pseudo-inverse is                    *)
(* -(1/c_r) A^T (B^(r-1) + c_1 B^(r-2) + ... + c_(r-1) I), r = rank A.     *)
(***************************************************************************)
Trace(B) == RSum(Tab(Rows(B), LAMBDA i : B[i][i]), Rows(B), Q(0))

AAT(A, n) == MatMul(A, Transpose(A, n), Rows(A))

\* F(v), with v computed before F is entered
Strict(F(_), v) == CHOOSE r \in {F(x) : x \in {v}} : TRUE

\* M_k = B^(k-1) + c_1 B^(k-2) + ... + c_(k-1) I and c_k = -tr(B M_k)/k,
\* for k up to the largest dimension, 3
CharM1(B) == Identity(Rows(B))
CharC1(B) == RNeg(Trace(B))
CharM2(B) == Strict(LAMBDA c1 : MatAdd(B, MatScale(c1, Identity(Rows(B)))), CharC1(B))
CharC2(B) ==
  Strict(LAMBDA M2 : RNeg(RDiv(Trace(MatMul(B, M2, Rows(B))), Q(2))), CharM2(B))
CharM3(B) ==
  Strict(LAMBDA BM2 : Strict(LAMBDA c2 :
           MatAdd(BM2, MatScale(c2, Identity(Rows(B)))), CharC2(B)),
         Strict(LAMBDA M2 : MatMul(B, M2, Rows(B)), CharM2(B)))
CharC3(B) ==
  Strict(LAMBDA M3 : RNeg(RDiv(Trace(MatMul(B, M3, Rows(B))), Q(3))), CharM3(B))

CharM(B, k) == CASE k = 1 -> CharM1(B) [] k = 2 -> CharM2(B) [] k = 3 -> CharM3(B)
\* the coefficient c_k of the characteristic polynomial of B
CharC(B, k) == CASE k = 1 -> CharC1(B) [] k = 2 -> CharC2(B) [] k = 3 -> CharC3(B)

\* the rank of A, from B = A A^T: the largest k with c_k # 0
Rank(B) ==
  LET nz == {k \in 1..Rows(B) : CharC(B, k) # Q(0)}
  IN  IF nz = {} THEN 0 ELSE CHOOSE k \in nz : \A j \in nz : j <= k

PseudoInverseOf(A, B, r, m, n) ==
  IF r = 0 THEN ZeroMat(n, m)
  ELSE Strict(LAMBDA M : Strict(LAMBDA c :
         MatScale(RNeg(RDiv(Q(1), c)), MatMul(Transpose(A, n), M, m)),
         CharC(B, r)), CharM(B, r))

PseudoInverse(A, m, n) ==
  Strict(LAMBDA B : Strict(LAMBDA r : PseudoInverseOf(A, B, r, m, n), Rank(B)),
         AAT(A, n))

\* [det |-> the value returned, ret |-> the n x m matrix written to ret]
rightInvA(A, m, n) ==
  [det |-> IF m = n THEN RAbs(determinant(A)) ELSE Sqrt(determinant(AAT(A, n))),
   ret |-> PseudoInverse(A, m, n)]

(***************************************************************************)
(* AffineGeometry< ctype, mydim, cdim >::Storage and the query methods.    *)
(***************************************************************************)
\* StorageDirect without the call of rightInvA for the inverse: the matrix
\* jacobianInverseTransposed stays zero
StorageDirect_noInverse(mydim, cdim, refEl, org, jt, ud) ==
  [mydimension |-> mydim, coorddimension |-> cdim, userData |-> ud,
   refElement |-> refEl, origin |-> org, jacobianTransposed |-> jt,
   jacobianInverseTransposed |-> ZeroMat(cdim, mydim),
   integrationElement |-> rightInvA(jt, mydim, cdim).det]

\* Storage( refEl, org, jt, userData )
StorageDirect(mydim, cdim, refEl, org, jt, ud) ==
  LET inv == rightInvA(jt, mydim, cdim)
  IN  [mydimension |-> mydim, coorddimension |-> cdim, userData |-> ud,
       refElement |-> refEl, origin |-> org, jacobianTransposed |-> jt,
       jacobianInverseTransposed |-> inv.ret, integrationElement |-> inv.det]

\* StorageCoordVector with the rows coordVector[ i+1 ], origin not subtracted
StorageCoordVector_rowsNotRelative(mydim, cdim, refEl, coordVector, ud) ==
  [mydimension |-> mydim, coorddimension |-> cdim, userData |-> ud,
   refElement |-> refEl, origin |-> coordVector[1],
   jacobianTransposed |-> Tab(mydim, LAMBDA i : coordVector[i + 1]),
   jacobianInverseTransposed |->
     rightInvA(Tab(mydim, LAMBDA i : coordVector[i + 1]), mydim, cdim).ret,
   integrationElement |->
     rightInvA(Tab(mydim, LAMBDA i : coordVector[i + 1]), mydim, cdim).det]

\* Storage( refEl, coordVector, userData ), Len(coordVector) > mydim;
\* coordVector[ i ] of the code is coordVector[i + 1] here
StorageCoordVector(mydim, cdim, refEl, coordVector, ud) ==
  LET org == coordVector[1]
      jt == Tab(mydim, LAMBDA i : VecSub(coordVector[i + 1], org))
  IN  StorageDirect(mydim, cdim, refEl, org, jt, ud)

affine(g) == TRUE

type(g) == g.refElement

corners(g) == size(g.refElement, g.mydimension)

global(g, x) == umtv(g.jacobianTransposed, x, g.origin)

\* local without the subtraction of the origin
local_originKept(g, y) == mtv(g.jacobianInverseTransposed, y, g.mydimension)

local(g, y) == mtv(g.jacobianInverseTransposed, VecSub(y, g.origin), g.mydimension)

\* corner( i ) for 0 <= i < corners()
corner(g, i) == global(g, position(g.refElement, i, g.mydimension))

center(g) == global(g, position(g.refElement, 0, 0))

\* integrationElement returning what volume returns
integrationElement_asVolume(g, x) ==
  RMul(g.integrationElement, RefVolume(g.refElement))

integrationElement(g, x) == g.integrationElement

volume(g) == RMul(g.integrationElement, RefVolume(g.refElement))

jacobianTransposed(g, x) == g.jacobianTransposed

\* jacobianInverseTransposed returning the transposed of jacobianTransposed
jacobianInverseTransposed_transposedOnly(g, x) ==
  Transpose(g.jacobianTransposed, g.coorddimension)

jacobianInverseTransposed(g, x) == g.jacobianInverseTransposed

userData(g) == g.userData

(***************************************************************************)
(* The state: one AffineGeometry object and its last call.                 *)
(***************************************************************************)
VARIABLES
  geometry,     \* storage_ of the object, NoGeometry before its construction
  coordVector,  \* the corner list the object was constructed from, or <<>>
  ret,          \* the last call: [op, arg, val]
  err,          \* "none", or how the process ended abnormally
  fault,        \* the defect of the TestGeometry handed to checkGeometry
  pc,           \* the position of checkGeometry
  pass,         \* the local variable pass of checkGeometry
  qi,           \* the index i of the loop over the quadrature points
  diag          \* the diagnostics checkGeometry has written to std::cerr

vars == <<geometry, coordVector, ret, err, fault, pc, pass, qi, diag>>
checkVars == <<fault, pc, pass, qi, diag>>

NoGeometry == [mydimension |-> 0]
NoCall == [op |-> "none", arg |-> <<>>, val |-> <<>>]
Call(op, arg, val) == [op |-> op, arg |-> arg, val |-> val]

(***************************************************************************)
(* The inputs the model draws.                                             *)
(***************************************************************************)
\* the template arguments <<mydim, cdim>> that are instantiated
Instantiations == {<<1, 1>>, <<1, 2>>, <<2, 2>>, <<2, 3>>, <<3, 3>>}
SmallInstantiations == {d \in Instantiations : d[1] * d[2] <= 6}

\* the rows of a 3 x 3 Jacobian: the unit vectors and one sheared vector
Rows3 == {<<1, 0, 0>>, <<0, 1, 0>>, <<0, 0, 1>>, <<1, 1, 0>>}
JacobianEntries(mydim, cdim) == IF mydim * cdim <= 4 THEN 0..MaxCoord ELSE 0..1
Jacobians(mydim, cdim) ==
  IF mydim * cdim <= 6
  THEN {QMat(M) : M \in [1..mydim -> [1..cdim -> JacobianEntries(mydim, cdim)]]}
  ELSE {QMat(M) : M \in [1..mydim -> Rows3]}
Ones(n) == Tab(n, LAMBDA k : Q(1))
\* the origins of the corner lists
Origins(mydim, cdim) ==
  IF mydim * cdim <= 2 THEN {ZeroVec(cdim), Ones(cdim)} ELSE {Ones(cdim)}
\* the payloads of the user data
UserDataValues == {0, 1}

\* the corner list <<org, org + jt[1], ..., org + jt[mydim]>>
CornerList(org, jt) == <<org>> \o Tab(Rows(jt), LAMBDA i : VecAdd(org, jt[i]))
CoordVectors(mydim, cdim) ==
  {CornerList(org, jt) : org \in Origins(mydim, cdim), jt \in Jacobians(mydim, cdim)}
\* corner lists of a wrong length: one corner short, one corner long
ShortCoordVectors(mydim, cdim) ==
  IF mydim = 1 THEN {<<org>> : org \in Origins(mydim, cdim)} ELSE {}
LongCoordVectors(mydim, cdim) ==
  IF mydim = 1
  THEN {cv \o <<Ones(cdim)>> : cv \in CoordVectors(mydim, cdim)}
  ELSE {}
\* what a read past the end of a corner list may yield
Garbage(cdim) == {ZeroVec(cdim), Tab(cdim, LAMBDA k : Q(k))}

LocalPoints(mydim) ==
  {Tab(mydim, LAMBDA k : IF k = 1 THEN Q(1) ELSE Q(0)),
   Tab(mydim, LAMBDA k : Frac(1, k + 1))}
OffPoint(cdim) == Tab(cdim, LAMBDA k : Q(k + 1))

Init ==
  /\ geometry = NoGeometry
  /\ coordVector = <<>>
  /\ ret = NoCall
  /\ err = "none"
  /\ fault = "none"
  /\ pc = "idle"
  /\ pass = TRUE
  /\ qi = 0
  /\ diag = {}

(***************************************************************************)
(* Construction.                                                           *)
(***************************************************************************)
\* AffineGeometry( gt, origin, jt ), userData defaulted
ConstructDirect ==
  /\ geometry = NoGeometry /\ err = "none"
  /\ \E d \in SmallInstantiations :
       \E gt \in GeometryTypes(d[1]), jt \in Jacobians(d[1], d[2]) :
         geometry' = StorageDirect(d[1], d[2], gt, Ones(d[2]), jt, 0)
  /\ coordVector' = <<>>
  /\ ret' = Call("AffineGeometry", <<>>, <<>>)
  /\ UNCHANGED <<err, checkVars>>

\* AffineGeometry( gt, coordVector ), userData defaulted.  The constructor reads
\* coordVector[ 0 ], ..., coordVector[ mydim ] and nothing else: a longer list
\* is not noticed, a shorter one is read past its end.
ConstructCoordVector ==
  /\ geometry = NoGeometry /\ err = "none"
  /\ \E d \in Instantiations : \E gt \in GeometryTypes(d[1]) :
       \/ \E cv \in CoordVectors(d[1], d[2]) \cup LongCoordVectors(d[1], d[2]) :
            /\ geometry' = StorageCoordVector(d[1], d[2], gt, cv, 0)
            /\ coordVector' = cv
            /\ ret' = Call("AffineGeometry", <<>>, <<>>)
            /\ err' = err
       \/ \E cv \in ShortCoordVectors(d[1], d[2]), junk \in Garbage(d[2]) :
            /\ geometry' = StorageCoordVector(d[1], d[2], gt, cv \o <<junk>>, 0)
            /\ coordVector' = cv
            /\ ret' = Call("AffineGeometry", <<>>, <<>>)
            /\ err' = err
       \/ \E cv \in ShortCoordVectors(d[1], d[2]) :
            /\ coordVector' = cv
            /\ err' = "segfault"
            /\ UNCHANGED <<geometry, ret>>
  /\ UNCHANGED checkVars

Constructed == geometry # NoGeometry /\ err = "none"

(***************************************************************************)
(* The query methods, called on the constructed object.                    *)
(***************************************************************************)
Query(op, arg, val) ==
  /\ Constructed
  /\ ret' = Call(op, arg, val)
  /\ UNCHANGED <<geometry, coordVector, err, checkVars>>

QAffine == Query("affine", <<>>, affine(geometry))
QType == Query("type", <<>>, type(geometry))
QCorners == Query("corners", <<>>, corners(geometry))
QCenter == Query("center", <<>>, center(geometry))
QVolume == Query("volume", <<>>, volume(geometry))
QGlobal == Constructed /\ \E x \in LocalPoints(geometry.mydimension) :
             Query("global", x, global(geometry, x))
QLocal == Constructed /\ \E y \in {global(geometry, x) : x \in LocalPoints(geometry.mydimension)}
                     \cup {OffPoint(geometry.coorddimension)} :
             Query("local", y, local(geometry, y))
QIntegrationElement == Constructed /\ \E x \in LocalPoints(geometry.mydimension) :
             Query("integrationElement", x, integrationElement(geometry, x))
QJacobianTransposed == Constructed /\ \E x \in LocalPoints(geometry.mydimension) :
             Query("jacobianTransposed", x, jacobianTransposed(geometry, x))
QJacobianInverseTransposed == Constructed /\ \E x \in LocalPoints(geometry.mydimension) :
             Query("jacobianInverseTransposed", x,
                   jacobianInverseTransposed(geometry, x))
QUserData == Query("userData", <<>>, userData(geometry))

\* corner( i ): refElement().position( i, mydim ) indexes the vertex table
\* without a range check, so an index outside 0..corners()-1 reads past it
QCorner ==
  /\ Constructed
  /\ \E i \in -1..corners(geometry) :
       IF 0 <= i /\ i < corners(geometry)
       THEN /\ ret' = Call("corner", i, corner(geometry, i))
            /\ err' = err
       ELSE \/ \E junk \in LocalPoints(geometry.mydimension) :
                 /\ ret' = Call("corner", i, global(geometry, junk))
                 /\ err' = err
            \/ /\ ret' = Call("corner", i, <<>>)
               /\ err' = "segfault"
  /\ UNCHANGED <<geometry, coordVector, checkVars>>

\* SetUserData assigning a whole default storage, not its UserData part only
SetUserData_wholeStorage(v) ==
  /\ Constructed
  /\ geometry' = [geometry EXCEPT !.userData = v,
                                  !.origin = ZeroVec(geometry.coorddimension)]
  /\ ret' = Call("userData=", v, <<>>)
  /\ UNCHANGED <<coordVector, err, checkVars>>

\* a write through the reference userData() returns
SetUserData(v) ==
  /\ Constructed
  /\ geometry' = [geometry EXCEPT !.userData = v]
  /\ ret' = Call("userData=", v, <<>>)
  /\ UNCHANGED <<coordVector, err, checkVars>>

WriteUserData == \E v \in UserDataValues : SetUserData(v)

Next ==
  \/ ConstructDirect
  \/ ConstructCoordVector
  \/ QAffine
  \/ QType
  \/ QCorners
  \/ QCorner
  \/ QCenter
  \/ QGlobal
  \/ QLocal
  \/ QIntegrationElement
  \/ QVolume
  \/ QJacobianTransposed
  \/ QJacobianInverseTransposed
  \/ QUserData
  \/ WriteUserData

Spec == Init /\ [][Next]_vars

(***************************************************************************)
(* checkGeometry( geometry ).  TestGeometry is a template parameter: the   *)
(* routine is handed the AffineGeometry above or an implementation with    *)
(* one defect, named by fault.                                             *)
(***************************************************************************)
\* 1e-8 is 1/ToleranceInv
ToleranceInv == 100000000
\* sqrt( numeric_limits< double >::epsilon() ) = 2^-26 is 1/SqrtEpsilonInv
SqrtEpsilonInv == 67108864

Faults == {"none", "center", "corners", "corner", "local", "jit",
           "negative", "integrationElement", "volume", "nonaffine"}

\* v with 1 added to its first coordinate
Shift(v) == Tab(Len(v), LAMBDA k : IF k = 1 THEN RAdd(v[k], Q(1)) ELSE v[k])

\* the methods of the TestGeometry
T_type(g) == type(g)
T_affine(g) == IF fault = "nonaffine" THEN FALSE ELSE affine(g)
T_center(g) == IF fault = "center" THEN Shift(center(g)) ELSE center(g)
T_corners(g) == IF fault = "corners" THEN corners(g) + 1 ELSE corners(g)
T_corner(g, i) == IF fault = "corner" /\ i = 0 THEN Shift(corner(g, i)) ELSE corner(g, i)
T_global(g, x) == global(g, x)
T_local(g, y) == IF fault = "local" THEN Shift(local(g, y)) ELSE local(g, y)
T_jacobianTransposed(g, x) == jacobianTransposed(g, x)
T_jacobianInverseTransposed(g, x) ==
  IF fault = "jit" THEN ZeroMat(g.coorddimension, g.mydimension)
  ELSE jacobianInverseTransposed(g, x)
T_integrationElement(g, x) ==
  CASE fault = "negative" -> RSub(Q(-1), integrationElement(g, x))
    [] fault = "integrationElement" -> RAdd(integrationElement(g, x), Q(1))
    [] OTHER -> integrationElement(g, x)
T_volume(g) ==
  IF fault \in {"volume", "nonaffine"} THEN RAdd(volume(g), Q(1)) ELSE volume(g)

\* GenericQuadratureFactory::create( type, 2 ): the points of the rule
QuadraturePoints(gt) ==
  << Tab(RefDim(gt), LAMBDA k : Frac(1, 4)),
     Tab(RefDim(gt), LAMBDA k : Frac(1, 2 * k)) >>

\* v.two_norm() > 1/t
TwoNormGt(v, t) ==
  LET q == two_norm2(v) IN q[1] > 0 /\ ((q[2] \div q[1]) \div t) < t

\* the j-th column of the identity matrix of size n
idColumn(n, j) == Tab(n, LAMBDA k : IF k = j THEN Q(1) ELSE Q(0))
\* the r x c matrix M as a FieldMatrix, probed with mv
AsFieldMatrix(M, r, c) ==
  Transpose(Tab(c, LAMBDA j : mv(M, idColumn(c, j))), r)
\* FMatrixHelp::multMatrix
multMatrix(A, B, n) == MatMul(A, B, n)
isId(id, n) ==
  \A j \in 1..n : \A k \in 1..n :
    LtInv(RAbs(RSub(id[j][k], IF j = k THEN Q(1) ELSE Q(0))), ToleranceInv)

Fail(msg) == /\ pass' = FALSE
             /\ diag' = diag \cup {msg}
Ok == UNCHANGED <<pass, diag>>

\* the geometry under test is constructed
ConstructTest ==
  /\ geometry = NoGeometry /\ err = "none" /\ pc = "idle"
  /\ \E d \in SmallInstantiations :
       \E gt \in GeometryTypes(d[1]), jt \in Jacobians(d[1], d[2]) :
         geometry' = StorageDirect(d[1], d[2], gt, Ones(d[2]), jt, 0)
  /\ fault' \in Faults
  /\ ret' = Call("AffineGeometry", <<>>, <<>>)
  /\ UNCHANGED <<coordVector, err, pc, pass, qi, diag>>

\* lines 33-70: pass = true; the centre check, which throws
CheckCenter ==
  /\ Constructed /\ pc = "idle"
  /\ LET refElement == T_type(geometry)
         c == T_global(geometry, position(refElement, 0, 0))
     IN  IF TwoNormGt(VecSub(T_center(geometry), c), ToleranceInv)
         THEN /\ pc' = "thrown"
              /\ err' = "Dune::Exception"
         ELSE /\ pc' = "corners"
              /\ err' = err
  /\ pass' = TRUE
  /\ ret' = Call("checkGeometry", <<>>, <<>>)
  /\ UNCHANGED <<geometry, coordVector, fault, qi, diag>>

\* lines 77-90: the number and the placement of the corners
CheckCorners ==
  /\ pc = "corners"
  /\ LET refElement == T_type(geometry)
         mydim == geometry.mydimension
     IN  IF size(refElement, mydim) = T_corners(geometry)
         THEN IF \E i \in 0..(T_corners(geometry) - 1) :
                   TwoNormGt(VecSub(T_corner(geometry, i),
                                    T_global(geometry, position(refElement, i, mydim))),
                             ToleranceInv)
              THEN Fail("Methods corner and global are inconsistent.")
              ELSE Ok
         ELSE Fail("Incorrect number of corners")
  /\ pc' = "roundtrip"
  /\ qi' = 1
  /\ UNCHANGED <<geometry, coordVector, ret, err, fault>>

\* quadrature[ i ].position()
QuadraturePoint == QuadraturePoints(T_type(geometry))[qi]

\* lines 102-107
CheckRoundTrip ==
  /\ pc = "roundtrip"
  /\ LET x == QuadraturePoint
     IN  IF TwoNormGt(VecSub(x, T_local(geometry, T_global(geometry, x))),
                      SqrtEpsilonInv)
         THEN Fail("global and local are not inverse to each other.")
         ELSE Ok
  /\ pc' = "duality"
  /\ UNCHANGED <<geometry, coordVector, ret, err, fault, qi>>

\* lines 119-131
jtAsFieldMatrix ==
  AsFieldMatrix(T_jacobianTransposed(geometry, QuadraturePoint),
                geometry.mydimension, geometry.coorddimension)
\* lines 133-145
jitAsFieldMatrix ==
  AsFieldMatrix(T_jacobianInverseTransposed(geometry, QuadraturePoint),
                geometry.coorddimension, geometry.mydimension)

\* lines 109-162
CheckDuality ==
  /\ pc = "duality"
  /\ LET id == multMatrix(jtAsFieldMatrix, jitAsFieldMatrix, geometry.mydimension)
     IN  IF ~isId(id, geometry.mydimension)
         THEN Fail("jacobianTransposed and jacobianInverseTransposed are not inverse to each other.")
         ELSE Ok
  /\ pc' = "negative"
  /\ UNCHANGED <<geometry, coordVector, ret, err, fault, qi>>

\* lines 164-168
CheckNonNegative ==
  /\ pc = "negative"
  /\ IF RLt(T_integrationElement(geometry, QuadraturePoint), Q(0))
     THEN Fail("Negative integrationElement found.")
     ELSE Ok
  /\ pc' = "consistency"
  /\ UNCHANGED <<geometry, coordVector, ret, err, fault, qi>>

\* lines 170-174
jtj == MatMul(jtAsFieldMatrix,
              Transpose(jtAsFieldMatrix, geometry.coorddimension),
              geometry.mydimension)

\* lines 176-179
CheckConsistency ==
  /\ pc = "consistency"
  /\ IF GtInv(RAbs(RSub(Sqrt(determinant(jtj)),
                        T_integrationElement(geometry, QuadraturePoint))),
              ToleranceInv)
     THEN Fail("integrationElement is not consistent with jacobianTransposed.")
     ELSE Ok
  /\ pc' = "volume"
  /\ UNCHANGED <<geometry, coordVector, ret, err, fault, qi>>

\* lines 180-185, and the step of the loop
CheckVolume ==
  /\ pc = "volume"
  /\ IF /\ T_affine(geometry)
        /\ GtInv(RAbs(RSub(T_volume(geometry),
                           RMul(RefVolume(T_type(geometry)),
                                T_integrationElement(geometry, QuadraturePoint)))),
                 ToleranceInv)
     THEN Fail("volume is not consistent with jacobianTransposed.")
     ELSE Ok
  /\ IF qi < Len(QuadraturePoints(T_type(geometry)))
     THEN /\ qi' = qi + 1
          /\ pc' = "roundtrip"
     ELSE /\ qi' = qi
          /\ pc' = "return"
  /\ UNCHANGED <<geometry, coordVector, ret, err, fault>>

\* lines 186-188: return pass
Return ==
  /\ pc = "return"
  /\ pc' = "done"
  /\ ret' = Call("checkGeometry", <<>>, pass)
  /\ UNCHANGED <<geometry, coordVector, err, fault, pass, qi, diag>>

NextCheck ==
  \/ ConstructTest
  \/ CheckCenter
  \/ CheckCorners
  \/ CheckRoundTrip
  \/ CheckDuality
  \/ CheckNonNegative
  \/ CheckConsistency
  \/ CheckVolume
  \/ Return

SpecCheck == Init /\ [][NextCheck]_vars

(***************************************************************************)
(* The claims.                                                             *)
(***************************************************************************)
\* the Jacobian of g has rank mydim: det(Jt Jt^T) # 0
FullRank(g) == determinant(AAT(g.jacobianTransposed, g.coorddimension)) # Q(0)

\* the last call was local( global( x ) ) for one of the local points x
IsRoundTrip(x) == ret.op = "local" /\ ret.arg = global(geometry, x)

\* C1 as stated: for every constructed mapping and every local x,
\* local(global(x)) = x.
C1_RoundTripAlways ==
  Constructed =>
    \A x \in LocalPoints(geometry.mydimension) : IsRoundTrip(x) => ret.val = x

\* C1 as amended: for every constructed mapping whose Jacobian has full rank
\* mydim and every local x, local(global(x)) = x.
C1_RoundTripFullRank ==
  (Constructed /\ FullRank(geometry)) =>
    \A x \in LocalPoints(geometry.mydimension) : IsRoundTrip(x) => ret.val = x

\* a round trip through a non-square full-rank mapping has returned x
C1_Witness ==
  /\ Constructed /\ FullRank(geometry)
  /\ geometry.mydimension < geometry.coorddimension
  /\ \E x \in LocalPoints(geometry.mydimension) : IsRoundTrip(x) /\ ret.val = x

DualityMessage ==
  "jacobianTransposed and jacobianInverseTransposed are not inverse to each other."

\* the checker has run its duality test on an AffineGeometry
DualityTested == fault = "none" /\ pc = "negative"

\* C2 as stated: for every constructed mapping the checker's product
\* jacobianTransposed * jacobianInverseTransposed is the mydim x mydim identity.
C2_DualityAlways ==
  DualityTested =>
    /\ DualityMessage \notin diag
    /\ multMatrix(jtAsFieldMatrix, jitAsFieldMatrix, geometry.mydimension)
         = Identity(geometry.mydimension)

\* C2 as amended: for every constructed mapping whose Jacobian has full rank
\* mydim, the checker's product jacobianTransposed * jacobianInverseTransposed
\* is the mydim x mydim identity, for mydim = cdim and for mydim < cdim.
C2_DualityFullRank ==
  (DualityTested /\ FullRank(geometry)) =>
    /\ DualityMessage \notin diag
    /\ multMatrix(jtAsFieldMatrix, jitAsFieldMatrix, geometry.mydimension)
         = Identity(geometry.mydimension)

\* the duality test has passed on a full-rank mapping of a 2-dimensional
\* element into 3-dimensional space whose Jacobian is no partial isometry
C2_Witness ==
  /\ DualityTested /\ FullRank(geometry)
  /\ geometry.mydimension = 2 /\ geometry.coorddimension = 3
  /\ DualityMessage \notin diag
  /\ jtj # Identity(2)

\* C3: integrationElement(x) is non-negative and equals
\* sqrt(det(Jt * Jt^T)), Jt = jacobianTransposed(x), within 1e-8.
C3_IntegrationElement ==
  (Constructed /\ ret.op = "integrationElement") =>
    LET Jt == jacobianTransposed(geometry, ret.arg)
        root == Sqrt(determinant(AAT(Jt, geometry.coorddimension)))
    IN  /\ ~RLt(ret.val, Q(0))
        /\ ~GtInv(RAbs(RSub(root, ret.val)), ToleranceInv)

\* integrationElement was called on an orientation-reversing mapping
C3_Witness ==
  /\ Constructed /\ ret.op = "integrationElement"
  /\ geometry.mydimension = geometry.coorddimension
  /\ RLt(determinant(geometry.jacobianTransposed), Q(0))
  /\ RLt(Q(0), ret.val)

\* the object was constructed from a corner list of mydim+1 corners
FromCorners ==
  /\ geometry # NoGeometry
  /\ Len(coordVector) = geometry.mydimension + 1

\* C4: for a mapping built from cornerCoordinates on any reference element,
\* corner(i) = cornerCoordinates[i] for every i in 0..mydim.
C4_CornersReproduced ==
  (FromCorners /\ ret.op = "corner" /\ err = "none") =>
    (ret.arg \in 0..geometry.mydimension => ret.val = coordVector[ret.arg + 1])

\* the fields of the storage other than the user data
Core(g) ==
  IF g = NoGeometry THEN g
  ELSE <<g.mydimension, g.coorddimension, g.refElement, g.origin,
         g.jacobianTransposed, g.jacobianInverseTransposed, g.integrationElement>>

\* C5: after construction, no query and no write through userData() changes
\* origin, jacobianTransposed, jacobianInverseTransposed, integrationElement
\* or the reference element.
C5_Immutable == [][geometry # NoGeometry => Core(geometry') = Core(geometry)]_vars

\* the user data was written and the object queried afterwards
C5_Witness ==
  /\ Constructed /\ geometry.userData # 0
  /\ ret.op = "jacobianInverseTransposed"

\* C6: corner(i) fails with OutOfRange for every i outside 0..corners()-1.
C6_CornerOutOfRange ==
  (geometry # NoGeometry /\ ret.op = "corner"
     /\ ~(0 <= ret.arg /\ ret.arg < corners(geometry))) => err = "OutOfRange"

\* C7: construction from a corner list whose length is not mydim+1 fails
\* with InvalidArgument and produces no instance.
C7_LengthChecked ==
  coordVector # <<>> =>
    IF geometry = NoGeometry THEN err = "InvalidArgument"
    ELSE Len(coordVector) = geometry.mydimension + 1

\* the corners of cv span less than a mydim-dimensional simplex
Degenerate(cv, mydim, cdim) ==
  determinant(AAT(Tab(mydim, LAMBDA i : VecSub(cv[i + 1], cv[1])), cdim)) = Q(0)

DegenerateCorners ==
  /\ FromCorners
  /\ Degenerate(coordVector, geometry.mydimension, geometry.coorddimension)

\* C8: construction from degenerate corners raises no error, and the instance
\* reports integrationElement(x) = 0 and volume() = 0.
C8_DegenerateIsNoError ==
  DegenerateCorners =>
    /\ ret.op = "AffineGeometry" => err = "none"
    /\ \A x \in LocalPoints(geometry.mydimension) :
         integrationElement(geometry, x) = Q(0)
    /\ volume(geometry) = Q(0)
    /\ ret.op \in {"integrationElement", "volume"} => ret.val = Q(0)

\* volume() was called on a triangle with three distinct collinear corners
C8_Witness ==
  /\ DegenerateCorners /\ err = "none"
  /\ geometry.refElement = "triangle" /\ geometry.coorddimension = 2
  /\ coordVector[1] # coordVector[2] /\ coordVector[2] # coordVector[3]
  /\ coordVector[1] # coordVector[3]
  /\ ret.op = "volume" /\ ret.val = Q(0)

\* C9: no sub-check of checkGeometry escalates a violation to a fatal error.
C9_NeverFatal == pc # "thrown" /\ err # "Dune::Exception"

\* the product jacobianInverseTransposed * jacobianTransposed of the last call
InverseTimesJacobian ==
  MatMul(ret.val, jacobianTransposed(geometry, ret.arg), geometry.coorddimension)
JacobianTimesInverse ==
  MatMul(jacobianTransposed(geometry, ret.arg), ret.val, geometry.mydimension)

\* C10 as stated: for every constructed mapping with mydim <= cdim,
\* jacobianInverseTransposed(x) * jacobianTransposed(x) is the identity.
C10_LeftInverseAlways ==
  (Constructed /\ ret.op = "jacobianInverseTransposed") =>
    InverseTimesJacobian = Identity(geometry.coorddimension)

\* C10 as amended: for every constructed mapping whose Jacobian has full
\* rank, jacobianInverseTransposed(x) * jacobianTransposed(x) is the identity
\* when mydim = cdim; when mydim < cdim that product is not the identity and
\* jacobianTransposed(x) * jacobianInverseTransposed(x) is.
C10_LeftInverseSquare ==
  (Constructed /\ ret.op = "jacobianInverseTransposed" /\ FullRank(geometry)) =>
    IF geometry.mydimension = geometry.coorddimension
    THEN InverseTimesJacobian = Identity(geometry.coorddimension)
    ELSE /\ InverseTimesJacobian # Identity(geometry.coorddimension)
         /\ JacobianTimesInverse = Identity(geometry.mydimension)

\* jacobianInverseTransposed was called on a square mapping that is no
\* permutation of the axes
C10_Witness ==
  /\ Constructed /\ ret.op = "jacobianInverseTransposed" /\ FullRank(geometry)
  /\ geometry.mydimension = 2 /\ geometry.coorddimension = 2
  /\ geometry.jacobianTransposed # ret.val
  /\ InverseTimesJacobian = Identity(2)

=============================================================================
